---- MODULE Spec2Model ----
(***************************************************************************)
(* Model of the vision-request pipeline of mcp-image-validator:            *)
(*   ollama_vision_client.py  OllamaVisionClient (describe_image,          *)
(*                            check_connection and their helpers)          *)
(*   server.py                bootstrap of the global client and the       *)
(*                            describe_image tool endpoint                 *)
(* Several callers ("threads") use one client; every step that touches the *)
(* file system or the network is one action, so calls interleave.          *)
(***************************************************************************)
EXTENDS Integers, Sequences, FiniteSets, TLC

\* total number of calls started on the client in one behaviour
MaxCalls == 3

\* concurrent callers of the one client
Threads == {"t1", "t2"}

(***************************************************************************)
(* Values                                                                  *)
(***************************************************************************)
\* An optional value is a sequence of length 0 (Python None / absent) or 1.
None == <<>>
Some(v) == <<v>>

DefaultBaseUrl == "https://ollama.com/v1"
DefaultModel == "qwen3-vl:235b-cloud"
\* temperature 0.2, kept in tenths
DefaultTemperatureTenths == 2
DefaultMaxTokens == 1000
DefaultPrompt == "Describe this image in detail."

\* openai.OpenAI(api_key=..., base_url=...) is built without max_retries, so
\* the SDK's transport keeps its default of two retries after the first try.
DefaultMaxRetries == 2

SUPPORTED_FORMATS ==
    [ext \in {".jpg", ".jpeg", ".png", ".gif", ".webp", ".bmp"} |->
        CASE ext = ".jpg"  -> "image/jpeg"
          [] ext = ".jpeg" -> "image/jpeg"
          [] ext = ".png"  -> "image/png"
          [] ext = ".gif"  -> "image/gif"
          [] ext = ".webp" -> "image/webp"
          [] ext = ".bmp"  -> "image/bmp"]

\* str.lower() on the suffixes that occur in the modelled file system
Lower(s) ==
    CASE s = ".JPG" -> ".jpg"
      [] s = ".PNG" -> ".png"
      [] OTHER -> s

(***************************************************************************)
(* The file system the calls run against.  A path is its stem and its      *)
(* suffix (pathlib's Path.suffix); an entry is absent, a directory or a    *)
(* regular file with its bytes.                                            *)
(***************************************************************************)
PngBytes == <<137, 80, 78, 71>>
JpegBytes == <<255, 216, 255>>
TextBytes == <<104, 105>>

Missing == [stem |-> "missing", suffix |-> ".png"]
Album   == [stem |-> "album",   suffix |-> ".png"]
Notes   == [stem |-> "notes",   suffix |-> ".txt"]
Fake    == [stem |-> "fake",    suffix |-> ".png"]
TPng    == [stem |-> "t",       suffix |-> ".png"]
Photo   == [stem |-> "PHOTO",   suffix |-> ".JPG"]

Paths == {Missing, Album, Notes, Fake, TPng, Photo}

FS(p) ==
    CASE p = Missing -> [kind |-> "absent", bytes |-> <<>>]
      [] p = Album   -> [kind |-> "dir",    bytes |-> <<>>]
      [] p = Notes   -> [kind |-> "file",   bytes |-> TextBytes]
      [] p = Fake    -> [kind |-> "file",   bytes |-> TextBytes]
      [] p = TPng    -> [kind |-> "file",   bytes |-> PngBytes]
      [] p = Photo   -> [kind |-> "file",   bytes |-> JpegBytes]

\* variants of the two path tests that never fail
Exists_mut(p) == TRUE
IsFile_mut(p) == TRUE

\* Path.exists() and Path.is_file()
Exists(p) == FS(p).kind # "absent"
IsFile(p) == FS(p).kind = "file"

IsPrefix(s, t) == Len(s) <= Len(t) /\ \A i \in 1..Len(s) : s[i] = t[i]

\* PIL identifies an image by its leading bytes, whatever the file is called
Decodable(bytes) == IsPrefix(PngBytes, bytes) \/ IsPrefix(JpegBytes, bytes)

(***************************************************************************)
(* base64.b64encode: three bytes become four sextets; a short last group   *)
(* is padded with '=' (written 64 here).                                   *)
(***************************************************************************)
Pad == 64

B64Group(g) ==
    LET n == Len(g)
        b1 == g[1]
        b2 == IF n >= 2 THEN g[2] ELSE 0
        b3 == IF n >= 3 THEN g[3] ELSE 0
        v  == b1 * 65536 + b2 * 256 + b3
    IN  << v \div 262144,
           (v \div 4096) % 64,
           IF n >= 2 THEN (v \div 64) % 64 ELSE Pad,
           IF n >= 3 THEN v % 64 ELSE Pad >>

RECURSIVE B64Encode(_)
B64Encode(bytes) ==
    IF Len(bytes) = 0 THEN <<>>
    ELSE IF Len(bytes) <= 3 THEN B64Group(bytes)
    ELSE B64Group(SubSeq(bytes, 1, 3)) \o B64Encode(SubSeq(bytes, 4, Len(bytes)))

\* _get_mime_type
GetMimeType(p) ==
    LET ext == Lower(p.suffix)
    IN  IF ext \in DOMAIN SUPPORTED_FORMATS THEN SUPPORTED_FORMATS[ext] ELSE "image/jpeg"

(***************************************************************************)
(* Exceptions.  A message is its format string's fixed head (prefix) and   *)
(* the text interpolated after it (detail, a sequence of strings); cause   *)
(* is the type of the exception named by "raise ... from e".               *)
(***************************************************************************)
Exc(type, prefix, detail, cause) ==
    [type |-> type, prefix |-> prefix, detail |-> detail, cause |-> cause]

NoExc == Exc("none", "", <<>>, "none")

\* str(e)
Str(e) == <<e.prefix>> \o e.detail

(***************************************************************************)
(* The remote endpoint.  A reply to one HTTP request is a 2xx body with    *)
(* choices[0].message.content absent, "" or a text, an HTTP error status,  *)
(* or a refused connection.                                                *)
(***************************************************************************)
Contents == {None, Some(""), Some("a red square")}

Replies ==
    [status : {"ok"}, content : Contents]
      \cup [status : {"http500", "http401", "refused"}, content : {None}]

NoReply == [status |-> "none", content |-> None]

\* the exception the SDK raises for a failed exchange
TransportError(r) ==
    CASE r.status = "http500" -> Exc("InternalServerError", "Error code: 500", <<>>, "none")
      [] r.status = "http401" -> Exc("AuthenticationError", "Error code: 401", <<>>, "none")
      [] r.status = "refused" -> Exc("APIConnectionError", "Connection error.", <<>>, "none")

\* The SDK transport retries a refused connection and a 5xx answer (unless
\* the answer carries x-should-retry: false) while retries remain.
ShouldRetry(max_retries, sent, r, hdr) ==
    /\ sent < max_retries
    /\ \/ r.status = "refused"
       \/ r.status = "http500" /\ hdr # "false"

(***************************************************************************)
(* OllamaVisionClient.__init__                                             *)
(***************************************************************************)
OllamaVisionClient(api_key, base_url, model, temperature, max_tokens) ==
    [api_key |-> api_key, base_url |-> base_url, model |-> model,
     temperature |-> temperature, max_tokens |-> max_tokens,
     client |-> [api_key |-> api_key, base_url |-> base_url,
                 max_retries |-> DefaultMaxRetries]]

Unconstructed == OllamaVisionClient("", "", "", 0, 0)

\* variant: every extension is accepted
ExtSupported_mut(p) == TRUE

\* _validate_image, first half: the extension check
ExtSupported(p) == Lower(p.suffix) \in DOMAIN SUPPORTED_FORMATS

\* prompt or "Describe this image in detail."
UserPrompt(prompt) ==
    IF prompt = None \/ prompt = Some("") THEN DefaultPrompt ELSE prompt[1]

\* the chat-completion request of describe_image
BuildRequest(slf, mime_type, base64_image, user_prompt) ==
    [model |-> slf.model,
     text |-> user_prompt,
     url |-> [mime |-> mime_type, base64 |-> base64_image],
     temperature |-> slf.temperature,
     max_tokens |-> slf.max_tokens]

NoRequest == BuildRequest(Unconstructed, "", <<>>, "")

\* variant: the content is returned without the emptiness test
TryBody_mut(r) ==
    IF r.status # "ok"
    THEN [ret |-> None, exc |-> TransportError(r)]
    ELSE [ret |-> r.content, exc |-> NoExc]

\* describe_image, the body of the try block after the exchange
TryBody(r) ==
    IF r.status # "ok"
    THEN [ret |-> None, exc |-> TransportError(r)]
    ELSE IF r.content = None \/ r.content = Some("")
    THEN [ret |-> None,
          exc |-> Exc("RuntimeError", "Empty response from vision model", <<>>, "none")]
    ELSE [ret |-> r.content, exc |-> NoExc]

\* describe_image, "except Exception as e" around the try block
ExceptWrap(o) ==
    IF o.exc = NoExc THEN o
    ELSE [ret |-> None,
          exc |-> Exc("RuntimeError", "Ollama Cloud API error", Str(o.exc), o.exc.type)]

\* the except clauses of the describe_image tool
ToolExcept(e) ==
    CASE e.type = "FileNotFoundError" ->
            Exc("RuntimeError", "File not found", Str(e), e.type)
      [] e.type = "ValueError" ->
            Exc("RuntimeError", "Invalid input", Str(e), e.type)
      [] OTHER ->
            Exc("RuntimeError", "Error describing image", Str(e), e.type)

\* variant: the probe's failure is reported as success
CheckResult_mut(slf, r) ==
    [reachable |-> TRUE, detail |-> <<"Connected to", slf.base_url>>]

\* check_connection's two return statements
CheckResult(slf, r) ==
    IF r.status = "ok"
    THEN [reachable |-> TRUE, detail |-> <<"Connected to", slf.base_url>>]
    ELSE [reachable |-> FALSE,
          detail |-> <<"Cannot connect to Ollama Cloud">> \o Str(TransportError(r))]

NoStatus == [reachable |-> FALSE, detail |-> <<>>]

(***************************************************************************)
(* State                                                                   *)
(***************************************************************************)
VARIABLES
    phase,      \* "boot", "server" (server.py built the client), "direct"
                \* (a caller built it), "boot_failed"
    self,       \* the fields of the one OllamaVisionClient
    made,       \* the fields as __init__ left them
    ncalls,     \* calls started so far
    pc,         \* per caller: the step its call is at
    op,         \* per caller: "describe", "tool", "check" or "none"
    path,       \* per caller: image_path
    prompt,     \* per caller: prompt (None when not given)
    delegated,  \* per caller: the tool reached ollama_client.describe_image
    handles,    \* per caller: file handles the call holds open
    nopen,      \* per caller: files opened by the call
    nread,      \* per caller: reads done by the call
    nreq,       \* per caller: HTTP requests sent by the call
    data,       \* per caller: bytes read by _encode_image
    encoded,    \* per caller: base64 text
    request,    \* per caller: the chat-completion request built
    reply,      \* per caller: the reply that ended the exchange
    ret,        \* per caller: value returned (None while there is none)
    exc,        \* per caller: exception raised (NoExc while there is none)
    status,     \* per caller: check_connection's return value
    trace       \* per caller: the pipeline steps entered, in order

vars == << phase, self, made, ncalls, pc, op, path, prompt, delegated, handles,
           nopen, nread, nreq, data, encoded, request, reply, ret, exc,
           status, trace >>

clientVars == << self, made >>
ioVars == << handles, nopen, nread, data, encoded >>
argVars == << op, path, prompt >>

Prompts == {None, Some("What colour is it?")}

EnvKeys == {None, Some(""), Some("sk-live")}

ApiKeys == {"", "sk-live"}

Running == phase \in {"server", "direct"}

Init ==
    /\ phase = "boot"
    /\ self = Unconstructed
    /\ made = Unconstructed
    /\ ncalls = 0
    /\ pc = [t \in Threads |-> "idle"]
    /\ op = [t \in Threads |-> "none"]
    /\ path = [t \in Threads |-> Missing]
    /\ prompt = [t \in Threads |-> None]
    /\ delegated = [t \in Threads |-> FALSE]
    /\ handles = [t \in Threads |-> 0]
    /\ nopen = [t \in Threads |-> 0]
    /\ nread = [t \in Threads |-> 0]
    /\ nreq = [t \in Threads |-> 0]
    /\ data = [t \in Threads |-> <<>>]
    /\ encoded = [t \in Threads |-> <<>>]
    /\ request = [t \in Threads |-> NoRequest]
    /\ reply = [t \in Threads |-> NoReply]
    /\ ret = [t \in Threads |-> None]
    /\ exc = [t \in Threads |-> NoExc]
    /\ status = [t \in Threads |-> NoStatus]
    /\ trace = [t \in Threads |-> <<>>]

(***************************************************************************)
(* Construction                                                            *)
(***************************************************************************)
\* server.py, module level: read OLLAMA_API_KEY, refuse to start without it,
\* build the global client
ServerBootstrap ==
    /\ phase = "boot"
    /\ \E key \in EnvKeys :
          IF key = None \/ key = Some("")
          THEN /\ phase' = "boot_failed"
               /\ UNCHANGED clientVars
          ELSE /\ phase' = "server"
               /\ self' = OllamaVisionClient(key[1], DefaultBaseUrl, DefaultModel,
                                             DefaultTemperatureTenths, DefaultMaxTokens)
               /\ made' = self'
    /\ UNCHANGED << ncalls, pc, argVars, delegated, ioVars, nreq, request, reply,
                    ret, exc, status, trace >>

\* a caller of the class constructs the client itself
Construct ==
    /\ phase = "boot"
    /\ \E api_key \in ApiKeys :
          /\ self' = OllamaVisionClient(api_key, DefaultBaseUrl, DefaultModel,
                                        DefaultTemperatureTenths, DefaultMaxTokens)
          /\ made' = self'
    /\ phase' = "direct"
    /\ UNCHANGED << ncalls, pc, argVars, delegated, ioVars, nreq, request, reply,
                    ret, exc, status, trace >>

(***************************************************************************)
(* Starting and ending a call                                              *)
(***************************************************************************)
Begin(t, o, p, pr, first) ==
    /\ Running
    /\ pc[t] = "idle"
    /\ ncalls < MaxCalls
    /\ ncalls' = ncalls + 1
    /\ op' = [op EXCEPT ![t] = o]
    /\ path' = [path EXCEPT ![t] = p]
    /\ prompt' = [prompt EXCEPT ![t] = pr]
    /\ pc' = [pc EXCEPT ![t] = first]
    /\ UNCHANGED << phase, clientVars, delegated, ioVars, nreq, request, reply,
                    ret, exc, status, trace >>

\* client.describe_image(image_path, prompt)
CallDescribe(t) ==
    \E p \in Paths, pr \in Prompts : Begin(t, "describe", p, pr, "exists")

\* the describe_image tool of server.py is called by the host
CallTool(t) ==
    /\ phase = "server"
    /\ \E p \in Paths, pr \in Prompts : Begin(t, "tool", p, pr, "tool_check")

\* client.check_connection()
CallCheck(t) == Begin(t, "check", Missing, None, "probe")

\* the caller has taken the result; the caller is ready for its next call
Return(t) ==
    /\ pc[t] = "returned"
    /\ pc' = [pc EXCEPT ![t] = "idle"]
    /\ op' = [op EXCEPT ![t] = "none"]
    /\ path' = [path EXCEPT ![t] = Missing]
    /\ prompt' = [prompt EXCEPT ![t] = None]
    /\ delegated' = [delegated EXCEPT ![t] = FALSE]
    /\ nopen' = [nopen EXCEPT ![t] = 0]
    /\ nread' = [nread EXCEPT ![t] = 0]
    /\ nreq' = [nreq EXCEPT ![t] = 0]
    /\ data' = [data EXCEPT ![t] = <<>>]
    /\ encoded' = [encoded EXCEPT ![t] = <<>>]
    /\ request' = [request EXCEPT ![t] = NoRequest]
    /\ reply' = [reply EXCEPT ![t] = NoReply]
    /\ ret' = [ret EXCEPT ![t] = None]
    /\ exc' = [exc EXCEPT ![t] = NoExc]
    /\ status' = [status EXCEPT ![t] = NoStatus]
    /\ trace' = [trace EXCEPT ![t] = <<>>]
    /\ UNCHANGED << phase, clientVars, ncalls, handles >>

(***************************************************************************)
(* OllamaVisionClient.describe_image, step by step                         *)
(***************************************************************************)
SupportedList == <<".jpg", ".jpeg", ".png", ".gif", ".webp", ".bmp">>

\* where control goes when describe_image returns or raises
AfterCore(t) == IF op[t] = "tool" THEN "tool_handler" ELSE "returned"

\* describe_image ends: it returns r (e = NoExc) or raises e (r = None)
Finish(t, r, e) ==
    /\ ret' = [ret EXCEPT ![t] = r]
    /\ exc' = [exc EXCEPT ![t] = e]
    /\ pc' = [pc EXCEPT ![t] = AfterCore(t)]

Goto(t, next) ==
    /\ pc' = [pc EXCEPT ![t] = next]
    /\ UNCHANGED << ret, exc >>

Enter(t, step) == trace' = [trace EXCEPT ![t] = Append(trace[t], step)]

\* "if not file_path.exists(): raise FileNotFoundError"
CheckExists(t) ==
    /\ pc[t] = "exists"
    /\ Enter(t, "exists")
    /\ IF ~Exists(path[t])
       THEN Finish(t, None, Exc("FileNotFoundError", "Image file not found", <<>>, "none"))
       ELSE Goto(t, "ext")
    /\ UNCHANGED << phase, clientVars, ncalls, argVars, delegated, ioVars, nreq,
                    request, reply, status >>

\* _validate_image: the extension must be a key of SUPPORTED_FORMATS
ValidateExt(t) ==
    /\ pc[t] = "ext"
    /\ Enter(t, "ext")
    /\ IF ~ExtSupported(path[t])
       THEN Finish(t, None, Exc("ValueError", "Unsupported image format",
                                <<Lower(path[t].suffix)>> \o SupportedList, "none"))
       ELSE Goto(t, "pil_open")
    /\ UNCHANGED << phase, clientVars, ncalls, argVars, delegated, ioVars, nreq,
                    request, reply, status >>

InvalidImage(why) ==
    Exc("ValueError", "Invalid or corrupted image file", <<why>>, "none")

\* _validate_image: Image.open(file_path) opens the file and reads its
\* header; when it raises, PIL has closed what it opened
PilOpen(t) ==
    /\ pc[t] = "pil_open"
    /\ Enter(t, "content")
    /\ \E fault \in BOOLEAN :
          IF FS(path[t]).kind # "file" \/ fault
          THEN /\ Finish(t, None, InvalidImage("cannot open"))
               /\ UNCHANGED << handles, nopen, nread >>
          ELSE /\ nopen' = [nopen EXCEPT ![t] = @ + 1]
               /\ nread' = [nread EXCEPT ![t] = @ + 1]
               /\ IF Decodable(FS(path[t]).bytes)
                  THEN /\ handles' = [handles EXCEPT ![t] = @ + 1]
                       /\ Goto(t, "pil_verify")
                  ELSE /\ Finish(t, None, InvalidImage("cannot identify image file"))
                       /\ UNCHANGED handles
    /\ UNCHANGED << phase, clientVars, ncalls, argVars, delegated, data, encoded,
                    nreq, request, reply, status >>

\* _validate_image: img.verify() and the end of the with block
PilVerify(t) ==
    /\ pc[t] = "pil_verify"
    /\ handles' = [handles EXCEPT ![t] = @ - 1]
    /\ nread' = [nread EXCEPT ![t] = @ + 1]
    /\ \E fault \in BOOLEAN :
          IF fault
          THEN Finish(t, None, InvalidImage("read error"))
          ELSE Goto(t, "open")
    /\ UNCHANGED << phase, clientVars, ncalls, argVars, delegated, nopen, data,
                    encoded, nreq, request, reply, status, trace >>

ReadFailed(why) == Exc("IOError", "Failed to read image file", <<why>>, "none")

\* _encode_image: open(file_path, 'rb')
OpenFile(t) ==
    /\ pc[t] = "open"
    /\ Enter(t, "read")
    /\ \E fault \in BOOLEAN :
          IF fault
          THEN /\ Finish(t, None, ReadFailed("Permission denied"))
               /\ UNCHANGED << handles, nopen >>
          ELSE /\ handles' = [handles EXCEPT ![t] = @ + 1]
               /\ nopen' = [nopen EXCEPT ![t] = @ + 1]
               /\ Goto(t, "read")
    /\ UNCHANGED << phase, clientVars, ncalls, argVars, delegated, nread, data,
                    encoded, nreq, request, reply, status >>

\* variant: the file is opened without a with block, so a read error leaves
\* the handle open
ReadFile_mut(t) ==
    /\ pc[t] = "read"
    /\ nread' = [nread EXCEPT ![t] = @ + 1]
    /\ \E fault \in BOOLEAN :
          IF fault
          THEN /\ Finish(t, None, ReadFailed("Input/output error"))
               /\ UNCHANGED data
          ELSE /\ data' = [data EXCEPT ![t] = FS(path[t]).bytes]
               /\ Goto(t, "encode")
    /\ UNCHANGED << phase, clientVars, ncalls, argVars, delegated, handles, nopen,
                    encoded, nreq, request, reply, status, trace >>

\* _encode_image: image_file.read(); an error leaves the with block
ReadFile(t) ==
    /\ pc[t] = "read"
    /\ nread' = [nread EXCEPT ![t] = @ + 1]
    /\ \E fault \in BOOLEAN :
          IF fault
          THEN /\ handles' = [handles EXCEPT ![t] = @ - 1]
               /\ Finish(t, None, ReadFailed("Input/output error"))
               /\ UNCHANGED data
          ELSE /\ data' = [data EXCEPT ![t] = FS(path[t]).bytes]
               /\ Goto(t, "encode")
               /\ UNCHANGED handles
    /\ UNCHANGED << phase, clientVars, ncalls, argVars, delegated, nopen, encoded,
                    nreq, request, reply, status, trace >>

\* _encode_image: base64.b64encode(...).decode('utf-8'), inside the with block
Encode(t) ==
    /\ pc[t] = "encode"
    /\ encoded' = [encoded EXCEPT ![t] = B64Encode(data[t])]
    /\ Goto(t, "close")
    /\ UNCHANGED << phase, clientVars, ncalls, argVars, delegated, handles, nopen,
                    nread, data, nreq, request, reply, status, trace >>

\* variant: the call keeps a per-call setting on the client object
CloseFile_mut(t) ==
    /\ pc[t] = "close"
    /\ handles' = [handles EXCEPT ![t] = @ - 1]
    /\ self' = [self EXCEPT !.temperature = 0]
    /\ request' = [request EXCEPT ![t] =
                      BuildRequest(self', GetMimeType(path[t]), encoded[t],
                                   UserPrompt(prompt[t]))]
    /\ Goto(t, "dispatch")
    /\ UNCHANGED << phase, made, ncalls, argVars, delegated, nopen, nread,
                    data, encoded, nreq, reply, status, trace >>

\* _encode_image returns, which leaves the with block; describe_image then
\* resolves the MIME type and the prompt
CloseFile(t) ==
    /\ pc[t] = "close"
    /\ handles' = [handles EXCEPT ![t] = @ - 1]
    /\ request' = [request EXCEPT ![t] =
                      BuildRequest(self, GetMimeType(path[t]), encoded[t],
                                   UserPrompt(prompt[t]))]
    /\ Goto(t, "dispatch")
    /\ UNCHANGED << phase, clientVars, ncalls, argVars, delegated, nopen, nread,
                    data, encoded, nreq, reply, status, trace >>

\* describe_image's try block: one HTTP request of
\* self.client.chat.completions.create; the transport sends another after a
\* retryable failure, otherwise the reply is interpreted and the call ends
Dispatch(t) ==
    /\ pc[t] = "dispatch"
    /\ trace' = [trace EXCEPT ![t] =
                    IF nreq[t] = 0 THEN Append(@, "dispatch") ELSE @]
    /\ nreq' = [nreq EXCEPT ![t] = @ + 1]
    /\ \E r \in Replies, hdr \in {"absent", "false"} :
          IF ShouldRetry(self.client.max_retries, nreq[t], r, hdr)
          THEN /\ Goto(t, "dispatch")
               /\ UNCHANGED reply
          ELSE /\ reply' = [reply EXCEPT ![t] = r]
               /\ LET o == ExceptWrap(TryBody(r))
                  IN  Finish(t, o.ret, o.exc)
    /\ UNCHANGED << phase, clientVars, ncalls, argVars, delegated, ioVars, request,
                    status >>

(***************************************************************************)
(* OllamaVisionClient.check_connection                                     *)
(***************************************************************************)
\* one HTTP request of self.client.models.list(), then the return
Probe(t) ==
    /\ pc[t] = "probe"
    /\ nreq' = [nreq EXCEPT ![t] = @ + 1]
    /\ \E r \in Replies, hdr \in {"absent", "false"} :
          IF ShouldRetry(self.client.max_retries, nreq[t], r, hdr)
          THEN /\ Goto(t, "probe")
               /\ UNCHANGED << reply, status >>
          ELSE /\ reply' = [reply EXCEPT ![t] = r]
               /\ status' = [status EXCEPT ![t] = CheckResult(self, r)]
               /\ Goto(t, "returned")
    /\ UNCHANGED << phase, clientVars, ncalls, argVars, delegated, ioVars, request,
                    trace >>

(***************************************************************************)
(* server.py, the describe_image tool                                      *)
(***************************************************************************)
\* the checks on img_path before the client is called
ToolCheck(t) ==
    /\ pc[t] = "tool_check"
    /\ IF ~Exists(path[t])
       THEN /\ exc' = [exc EXCEPT ![t] =
                         Exc("FileNotFoundError", "Image file not found", <<>>, "none")]
            /\ pc' = [pc EXCEPT ![t] = "tool_handler"]
            /\ UNCHANGED delegated
       ELSE IF ~IsFile(path[t])
       THEN /\ exc' = [exc EXCEPT ![t] =
                         Exc("ValueError", "Path is not a file", <<>>, "none")]
            /\ pc' = [pc EXCEPT ![t] = "tool_handler"]
            /\ UNCHANGED delegated
       ELSE /\ delegated' = [delegated EXCEPT ![t] = TRUE]
            /\ pc' = [pc EXCEPT ![t] = "exists"]
            /\ UNCHANGED exc
    /\ UNCHANGED << phase, clientVars, ncalls, argVars, ioVars, nreq, request,
                    reply, ret, status, trace >>

\* "return description" or one of the three except clauses
ToolHandler(t) ==
    /\ pc[t] = "tool_handler"
    /\ exc' = [exc EXCEPT ![t] = IF @ = NoExc THEN @ ELSE ToolExcept(@)]
    /\ pc' = [pc EXCEPT ![t] = "returned"]
    /\ UNCHANGED << phase, clientVars, ncalls, argVars, delegated, ioVars, nreq,
                    request, reply, ret, status, trace >>

(***************************************************************************)
(* Specification                                                           *)
(***************************************************************************)
Next ==
    \/ ServerBootstrap
    \/ Construct
    \/ \E t \in Threads :
          \/ CallDescribe(t)
          \/ CallTool(t)
          \/ CallCheck(t)
          \/ CheckExists(t)
          \/ ValidateExt(t)
          \/ PilOpen(t)
          \/ PilVerify(t)
          \/ OpenFile(t)
          \/ ReadFile(t)
          \/ Encode(t)
          \/ CloseFile(t)
          \/ Dispatch(t)
          \/ Probe(t)
          \/ ToolCheck(t)
          \/ ToolHandler(t)
          \/ Return(t)

Spec == Init /\ [][Next]_vars

(***************************************************************************)
(* Vocabulary of the properties                                            *)
(***************************************************************************)
\* the failure kind a caller can tell from the exception it receives
KindOf(e) ==
    CASE e.type = "FileNotFoundError" -> "NotFound"
      [] e.type = "ValueError" /\ e.prefix = "Unsupported image format" -> "UnsupportedFormat"
      [] e.type = "ValueError" /\ e.prefix = "Invalid or corrupted image file" -> "InvalidImage"
      [] e.type = "IOError" -> "ReadError"
      [] e.type = "RuntimeError" /\ e.prefix = "Empty response from vision model" -> "EmptyResponse"
      [] e.type = "RuntimeError" /\ e.prefix = "Ollama Cloud API error" -> "RemoteError"
      [] OTHER -> "none"

\* the caller runs OllamaVisionClient.describe_image (directly or under the tool)
InCore(t) ==
    \/ op[t] = "describe"
    \/ op[t] = "tool" /\ delegated[t] /\ pc[t] # "returned"

\* describe_image has returned or raised; ret and exc are its outcome
CoreDone(t) ==
    \/ op[t] = "describe" /\ pc[t] = "returned"
    \/ op[t] = "tool" /\ delegated[t] /\ pc[t] = "tool_handler"

Pipeline == <<"exists", "ext", "content", "read", "dispatch">>

Entry(t) == FS(path[t])

RawExtSupported(t) == path[t].suffix \in DOMAIN SUPPORTED_FORMATS
LowerExtSupported(t) == Lower(path[t].suffix) \in DOMAIN SUPPORTED_FORMATS
GoodBytes(t) == Entry(t).kind = "file" /\ Decodable(Entry(t).bytes)

(***************************************************************************)
(* C1: for a path that names no file-system entry describe_image raises    *)
(* NotFound, and the call opens no file, reads nothing and sends no        *)
(* request.                                                                *)
(***************************************************************************)
C1_NotFoundNoIO ==
    \A t \in Threads :
        (InCore(t) /\ Entry(t).kind = "absent") =>
            /\ nopen[t] = 0 /\ nread[t] = 0 /\ nreq[t] = 0 /\ handles[t] = 0
            /\ CoreDone(t) => (KindOf(exc[t]) = "NotFound" /\ ret[t] = None)

C1_Witness ==
    \E t \in Threads :
        CoreDone(t) /\ Entry(t).kind = "absent" /\ exc[t].type = "FileNotFoundError"

(***************************************************************************)
(* C2: the steps of describe_image run in the order existence, extension,  *)
(* content, read/encode, dispatch and the call fails at the first step     *)
(* that fails; a request is sent only after all local steps succeeded.     *)
(***************************************************************************)
C2_Order(t) ==
    /\ IsPrefix(trace[t], Pipeline)
    /\ nreq[t] > 0 =>
          /\ trace[t] = Pipeline
          /\ Entry(t).kind # "absent"
          /\ GoodBytes(t)
          /\ data[t] = Entry(t).bytes
          /\ encoded[t] = B64Encode(Entry(t).bytes)
          /\ handles[t] = 0

C2_BadBytes(t) ==
    (LowerExtSupported(t) /\ ~GoodBytes(t)) =>
        /\ nreq[t] = 0
        /\ CoreDone(t) => KindOf(exc[t]) = "InvalidImage"

\* C2 as stated: an extension outside the six listed ones, compared as
\* written, always gives UnsupportedFormat and no request
C2_AsStated ==
    \A t \in Threads :
        (InCore(t) /\ Entry(t).kind # "absent") =>
            /\ C2_Order(t)
            /\ ~RawExtSupported(t) =>
                  /\ nreq[t] = 0
                  /\ CoreDone(t) => KindOf(exc[t]) = "UnsupportedFormat"
            /\ C2_BadBytes(t)

\* C2 amended: the extension is compared after lower-casing
C2_FailFastOrder ==
    \A t \in Threads :
        (InCore(t) /\ Entry(t).kind # "absent") =>
            /\ C2_Order(t)
            /\ ~LowerExtSupported(t) =>
                  /\ nreq[t] = 0
                  /\ trace[t] \in {<<>>, <<"exists">>, <<"exists", "ext">>}
                  /\ CoreDone(t) => KindOf(exc[t]) = "UnsupportedFormat"
            /\ C2_BadBytes(t)

C2_Witness ==
    \E t \in Threads :
        /\ CoreDone(t)
        /\ path[t] = Notes
        /\ ~Decodable(Entry(t).bytes)
        /\ KindOf(exc[t]) = "UnsupportedFormat"

(***************************************************************************)
(* C3: a 2xx reply whose first choice has no content or the empty string   *)
(* makes describe_image fail with EmptyResponse, told apart from           *)
(* RemoteError.                                                            *)
(***************************************************************************)
C3_EmptyResponseDistinct ==
    \A t \in Threads :
        (CoreDone(t) /\ reply[t].status = "ok"
                     /\ reply[t].content \in {None, Some("")}) =>
            /\ ret[t] = None
            /\ KindOf(exc[t]) = "EmptyResponse"

(***************************************************************************)
(* C4: when the endpoint answers 500 or refuses the connection,            *)
(* describe_image fails with RemoteError carrying the cause, and exactly   *)
(* one request was sent.                                                   *)
(***************************************************************************)
C4_RemoteErrorNoRetry ==
    \A t \in Threads :
        (CoreDone(t) /\ reply[t].status \in {"http500", "refused"}) =>
            /\ KindOf(exc[t]) = "RemoteError"
            /\ exc[t].cause = TransportError(reply[t]).type
            /\ exc[t].detail = Str(TransportError(reply[t]))
            /\ nreq[t] = 1

(***************************************************************************)
(* C5: check_connection never raises; it returns (reachable, detail) with  *)
(* reachable true exactly when the probe completed.                        *)
(***************************************************************************)
C5_CheckNeverRaises ==
    \A t \in Threads :
        op[t] = "check" =>
            /\ exc[t] = NoExc
            /\ pc[t] \in {"probe", "returned"}
            /\ pc[t] = "returned" =>
                  /\ reply[t] \in Replies
                  /\ status[t].detail # <<>>
                  /\ status[t].reachable <=> (reply[t].status = "ok")

C5_Witness ==
    \E t \in Threads :
        /\ op[t] = "check" /\ pc[t] = "returned"
        /\ reply[t].status = "http401"
        /\ ~status[t].reachable

(***************************************************************************)
(* C6: no client with an empty credential exists.                          *)
(***************************************************************************)
C6_CredentialNonEmpty ==
    Running => self.api_key # ""

(***************************************************************************)
(* C7: the tool rejects a path that is absent or not a regular file before *)
(* describe_image of the client is called, and whatever fails, the tool    *)
(* raises a RuntimeError with a message.                                   *)
(***************************************************************************)
C7_ToolBoundary ==
    \A t \in Threads :
        op[t] = "tool" =>
            /\ Entry(t).kind # "file" =>
                  /\ ~delegated[t]
                  /\ trace[t] = <<>> /\ nopen[t] = 0 /\ nreq[t] = 0
                  /\ pc[t] = "returned" => exc[t] # NoExc
            /\ pc[t] = "returned" =>
                  \/ exc[t] = NoExc /\ ret[t] # None
                  \/ /\ ret[t] = None
                     /\ exc[t].type = "RuntimeError"
                     /\ exc[t].prefix \in {"File not found", "Invalid input",
                                           "Error describing image"}
                     /\ exc[t].detail # <<>>

C7_Witness ==
    \E t \in Threads :
        /\ op[t] = "tool" /\ pc[t] = "returned"
        /\ Entry(t).kind = "dir"
        /\ exc[t].type = "RuntimeError" /\ exc[t].cause = "ValueError"

(***************************************************************************)
(* C8: describe_image returns a value only after a 2xx reply with          *)
(* non-empty content, the value is that content, and a call ends with      *)
(* either a value or an exception, never both and never neither.           *)
(***************************************************************************)
C8_ResultIsContent ==
    \A t \in Threads :
        InCore(t) =>
            /\ ret[t] # None =>
                  /\ CoreDone(t)
                  /\ reply[t].status = "ok"
                  /\ ret[t] = reply[t].content
                  /\ ret[t] # Some("")
            /\ CoreDone(t) <=> ((ret[t] # None) # (exc[t] # NoExc))
            /\ ~CoreDone(t) => (ret[t] = None /\ exc[t] = NoExc)

C8_Witness ==
    \E t \in Threads :
        /\ CoreDone(t)
        /\ path[t] = TPng /\ prompt[t] = None
        /\ ret[t] = Some("a red square")

(***************************************************************************)
(* C9: calls leave the client's configuration as the constructor set it,   *)
(* and what a call sends and how it ends is a function of its own          *)
(* arguments, the file it names and the reply it got, whatever other       *)
(* calls do meanwhile.                                                     *)
(***************************************************************************)
C9_Exchanged(t) == CoreDone(t) /\ reply[t] # NoReply

C9_ConfigFixedCallsIndependent ==
    /\ Running =>
          /\ self = made
          /\ self = OllamaVisionClient(made.api_key, DefaultBaseUrl, DefaultModel,
                                       DefaultTemperatureTenths, DefaultMaxTokens)
    /\ \A t \in Threads :
          (InCore(t) /\ nreq[t] > 0) =>
              /\ request[t].model = made.model
              /\ request[t].temperature = made.temperature
              /\ request[t].max_tokens = made.max_tokens
              /\ request[t].text =
                    (IF prompt[t] = None THEN DefaultPrompt ELSE prompt[t][1])
              /\ request[t].url.base64 = B64Encode(Entry(t).bytes)
    /\ \A t, u \in Threads :
          /\ (C9_Exchanged(t) /\ C9_Exchanged(u)
                /\ path[t] = path[u] /\ prompt[t] = prompt[u]
                /\ reply[t] = reply[u]) =>
                (ret[t] = ret[u] /\ exc[t] = exc[u] /\ request[t] = request[u])
          /\ (op[t] = "check" /\ op[u] = "check"
                /\ pc[t] = "returned" /\ pc[u] = "returned"
                /\ reply[t] = reply[u]) =>
                status[t] = status[u]

C9_Witness ==
    /\ C9_Exchanged("t1") /\ C9_Exchanged("t2")
    /\ path["t1"] = path["t2"] /\ prompt["t1"] = prompt["t2"]
    /\ reply["t1"] = reply["t2"]
    /\ nreq["t1"] # nreq["t2"]
    /\ ret["t1"] # None

(***************************************************************************)
(* C10: the handle _encode_image opens is released when the read step is   *)
(* over: before the request is sent and before describe_image returns or   *)
(* raises, after a successful read and after a read error alike.           *)
(***************************************************************************)
C10_Released(t) ==
    /\ handles[t] \in {0, 1}
    /\ pc[t] \in {"idle", "dispatch", "tool_handler", "returned", "probe"} =>
          handles[t] = 0
    /\ (CoreDone(t) /\ exc[t].prefix = "Failed to read image file") =>
          /\ KindOf(exc[t]) = "ReadError"
          /\ nreq[t] = 0
          /\ encoded[t] = <<>>

\* C10 as stated: the handle is already released when base64 encoding begins
C10_AsStated ==
    \A t \in Threads :
        /\ C10_Released(t)
        /\ pc[t] = "encode" => handles[t] = 0

\* C10 amended: encoding runs while the handle is open; the handle is
\* released before the request is sent and before the call ends
C10_HandleReleasedBeforeDispatch ==
    \A t \in Threads :
        /\ C10_Released(t)
        /\ pc[t] \in {"read", "encode", "close"} => handles[t] = 1

C10_Witness ==
    \E t \in Threads :
        /\ CoreDone(t)
        /\ KindOf(exc[t]) = "ReadError"
        /\ nopen[t] = 2 /\ nread[t] = 3
        /\ handles[t] = 0

====
